---- MODULE Spec2Model ----
\* pyControl4/auth.py: the four coroutines that talk to the Control4 cloud
\* (getAccountBearerToken, getAccountControllers, getControllerInfo,
\* getDirectorBearerToken) and the three request helpers they call.
\*
\* A call is modelled from the moment the caller invokes the coroutine to the
\* moment it returns or raises. The await points of the code are the steps of
\* the model: the session is opened, the request is sent, the response
\* arrives (or the connection fails, or the 10 second timer fires), the
\* context managers exit, the text is parsed and indexed.
\*
\* aiohttp, async_timeout and json are libraries: they are modelled by their
\* interface (a session is an object that is open until closed, a request is
\* answered, fails or is cancelled by the timer, json.loads returns the
\* document a text encodes or raises).
EXTENDS Integers, Sequences, FiniteSets, TLC

VARIABLES
    calls,         \* call slot -> the coroutine running in it
    openSessions,  \* the aiohttp.ClientSession objects that are not closed
    nextSession,   \* identity of the next ClientSession object constructed
    module,        \* the module-level names of auth.py (lines 8-10)
    remembered     \* an earlier getAccountControllers call the caller kept

vars == <<calls, openSessions, nextSession, module, remembered>>

------------------------------------------------------------------------
\* Bounds of the model.

\* Call slots: coroutines that can be in flight at the same time.
MaxCalls == 2
\* ClientSession objects constructed in one behaviour (calls started).
MaxStarts == 3

Calls == 1..MaxCalls

------------------------------------------------------------------------
\* JSON documents, as json.loads returns them.

JNull == [kind |-> "null"]
JStr(s) == [kind |-> "string", str |-> s]
JArr(items) == [kind |-> "array", items |-> items]
JObj(fields) == [kind |-> "object", fields |-> fields]
NoFields == [k \in {} |-> JNull]

\* What a call holds before it has a value.
NoValue == [kind |-> "none"]

\* The text of a response body: it encodes a JSON document or it does not.
JsonText(doc) == [syntax |-> "json", doc |-> doc]
Malformed == [syntax |-> "invalid", doc |-> NoValue]

------------------------------------------------------------------------
\* Module-level names.

authentication_endpoint == "https://apis.control4.com/authentication/v1/rest"
get_controllers_endpoint == "https://apis.control4.com/account/v3/rest/accounts"
application_key == "78f6791373d61bea49fdb9fb8897f1f3af193f11"

ModuleInit ==
    [authentication_endpoint |-> authentication_endpoint,
     get_controllers_endpoint |-> get_controllers_endpoint,
     application_key |-> application_key]

\* The deadline of async_timeout.timeout(10).
Timeout == 10

------------------------------------------------------------------------
\* Requests.

NoRequest == [method |-> "none"]
NoBody == [kind |-> "none"]
NoAuthorization == ""

\* dataDictionary of __sendAccountAuthRequest.
AccountAuthData(m, username, password) ==
    [clientInfo |->
        [device |->
            [deviceName |-> "pyControl4",
             deviceUUID |-> "0000000000000000",
             make |-> "pyControl4",
             model |-> "pyControl4",
             os |-> "Android",
             osVersion |-> "10"],
         userInfo |->
            [applicationKey |-> m.application_key,
             password |-> password,
             userName |-> username]]]

\* "Bearer {}".format(account_bearer_token)
BearerHeader(account_bearer_token) == "Bearer " \o account_bearer_token

\* dataDictionary of __sendControllerAuthRequest.
ControllerAuthData(controller_common_name) ==
    [serviceInfo |->
        [commonName |-> controller_common_name, services |-> "director"]]

\* session.post(authentication_endpoint, json=dataDictionary)
sendAccountAuthRequest(m, username, password) ==
    [method |-> "POST",
     url |-> m.authentication_endpoint,
     authorization |-> NoAuthorization,
     json |-> AccountAuthData(m, username, password)]

\* session.get(uri, headers=headers)
sendAccountGetRequest(account_bearer_token, uri) ==
    [method |-> "GET",
     url |-> uri,
     authorization |-> BearerHeader(account_bearer_token),
     json |-> NoBody]

\* Variant of sendControllerAuthRequest: headers=headers is left out of the post.
sendControllerAuthRequest_noHeaders(m, account_bearer_token, controller_common_name) ==
    [method |-> "POST",
     url |-> m.authentication_endpoint,
     authorization |-> NoAuthorization,
     json |-> ControllerAuthData(controller_common_name)]

\* session.post(authentication_endpoint, headers=headers, json=dataDictionary)
sendControllerAuthRequest(m, account_bearer_token, controller_common_name) ==
    [method |-> "POST",
     url |-> m.authentication_endpoint,
     authorization |-> BearerHeader(account_bearer_token),
     json |-> ControllerAuthData(controller_common_name)]

\* The request each public coroutine has its helper send.
RequestOf(m, inv) ==
    CASE inv.op = "getAccountBearerToken" ->
            sendAccountAuthRequest(m, inv.username, inv.password)
      [] inv.op = "getAccountControllers" ->
            sendAccountGetRequest(inv.token, m.get_controllers_endpoint)
      [] inv.op = "getControllerInfo" ->
            sendAccountGetRequest(inv.token, inv.href)
      [] inv.op = "getDirectorBearerToken" ->
            sendControllerAuthRequest(m, inv.token, inv.commonName)

------------------------------------------------------------------------
\* Results.

NoResult == [outcome |-> "none"]
Returned(v) == [outcome |-> "return", exc |-> "", value |-> v]
Raised(e) == [outcome |-> "raise", exc |-> e, value |-> NoValue]

\* json.loads(data)
json_loads(data) ==
    IF data.syntax = "json" THEN Returned(data.doc) ELSE Raised("JSONDecodeError")

\* Variant of GetItem: dict.get(key), which yields None for a missing key.
GetItem_get(r, key) ==
    IF r.outcome = "raise" THEN r
    ELSE IF r.value.kind = "object"
         THEN IF key \in DOMAIN r.value.fields
              THEN Returned(r.value.fields[key])
              ELSE Returned(JNull)
         ELSE Raised("TypeError")

\* r[key] for a string key, r the evaluation so far: a dict has the key or
\* raises KeyError; nothing else json.loads returns takes a string index.
GetItem(r, key) ==
    IF r.outcome = "raise" THEN r
    ELSE IF r.value.kind = "object"
         THEN IF key \in DOMAIN r.value.fields
              THEN Returned(r.value.fields[key])
              ELSE Raised("KeyError")
         ELSE Raised("TypeError")

\* str.strip() on the token strings of the model.
Strip(s) == IF s = " t " THEN "t" ELSE s

\* Variant of getAccountBearerToken: the token is stripped before it is returned.
getAccountBearerToken_stripped(data) ==
    LET r == GetItem(GetItem(json_loads(data), "authToken"), "token")
    IN  IF r.outcome = "return" /\ r.value.kind = "string"
        THEN Returned(JStr(Strip(r.value.str)))
        ELSE r

\* jsonDictionary["authToken"]["token"]
getAccountBearerToken(data) ==
    GetItem(GetItem(json_loads(data), "authToken"), "token")

\* The first occurrence of each element of s, in order.
RECURSIVE Dedup(_)
Dedup(s) ==
    IF Len(s) = 0 THEN <<>>
    ELSE LET front == Dedup(SubSeq(s, 1, Len(s) - 1))
             last == s[Len(s)]
         IN  IF \E i \in 1..Len(front) : front[i] = last
             THEN front
             ELSE Append(front, last)

\* Variant of getAccountControllers: duplicate descriptors are dropped.
getAccountControllers_dedup(data) ==
    LET r == GetItem(json_loads(data), "account")
    IN  IF r.outcome = "return" /\ r.value.kind = "array"
        THEN Returned(JArr(Dedup(r.value.items)))
        ELSE r

\* jsonDictionary["account"]
getAccountControllers(data) == GetItem(json_loads(data), "account")

\* jsonDictionary
getControllerInfo(data) == json_loads(data)

\* jsonDictionary["authToken"]["token"]
getDirectorBearerToken(data) ==
    GetItem(GetItem(json_loads(data), "authToken"), "token")

\* What the coroutine does with the text its helper returned.
ResultOf(op, data) ==
    CASE op = "getAccountBearerToken" -> getAccountBearerToken(data)
      [] op = "getAccountControllers" -> getAccountControllers(data)
      [] op = "getControllerInfo" -> getControllerInfo(data)
      [] op = "getDirectorBearerToken" -> getDirectorBearerToken(data)

------------------------------------------------------------------------
\* The inputs: what callers pass and what the upstream answers.

Ops == {"getAccountBearerToken", "getAccountControllers",
        "getControllerInfo", "getDirectorBearerToken"}

NoInvocation ==
    [op |-> "none", username |-> "", password |-> "", token |-> "",
     commonName |-> "", href |-> ""]

AccountCall(u, p) ==
    [NoInvocation EXCEPT !.op = "getAccountBearerToken", !.username = u, !.password = p]
ControllersCall(t) ==
    [NoInvocation EXCEPT !.op = "getAccountControllers", !.token = t]
InfoCall(t, h) ==
    [NoInvocation EXCEPT !.op = "getControllerInfo", !.token = t, !.href = h]
DirectorCall(t, cn) ==
    [NoInvocation EXCEPT !.op = "getDirectorBearerToken", !.token = t, !.commonName = cn]

Usernames == {"user@example.com", "other@example.com"}
Passwords == {"hunter2"}
Tokens == {"tokA", "tokB"}
CommonNames == {"control4_X_Y", "control4_Z_W"}
Href1 == "https://apis.control4.com/account/v3/rest/accounts/1"
Href2 == "https://apis.control4.com/account/v3/rest/accounts/2"
Hrefs == {Href1, Href2}

Invocations ==
    {AccountCall(u, p) : u \in Usernames, p \in Passwords}
    \cup {ControllersCall(t) : t \in Tokens}
    \cup {InfoCall(t, h) : t \in Tokens, h \in Hrefs}
    \cup {DirectorCall(t, cn) : t \in Tokens, cn \in CommonNames}

\* Token strings that a transformation (trimming, case change) would alter.
TokenStrings == {"T", " t "}

D1 == JObj([controllerCommonName |-> JStr("control4_X_Y"),
            href |-> JStr(Href1), name |-> JStr("N")])
D2 == JObj([controllerCommonName |-> JStr("control4_Z_W"),
            href |-> JStr(Href2), name |-> JStr("M")])

TokenDoc(v) == JObj([authToken |-> JObj([token |-> v])])
AccountDoc(items) == JObj([account |-> JArr(items)])
ErrorDoc ==
    JObj([C4ErrorResponse |->
            JObj([code |-> JStr("401"), message |-> JStr("Permission denied")])])

Response(status, text) == [status |-> status, text |-> text]
NoResponse == [status |-> 0, text |-> Malformed]

Responses ==
    {Response(200, JsonText(TokenDoc(JStr(s)))) : s \in TokenStrings}
    \cup {Response(200, JsonText(AccountDoc(items))) :
            items \in {<<>>, <<D1, D2>>, <<D2, D1>>, <<D1, D1>>}}
    \cup {Response(200, JsonText(TokenDoc(JNull))),
          Response(200, JsonText(JObj([authToken |-> JObj(NoFields)]))),
          Response(200, JsonText(JObj([authToken |-> JStr("T")]))),
          Response(200, JsonText(JArr(<<>>))),
          Response(200, JsonText(D1)),
          Response(200, Malformed),
          Response(401, JsonText(ErrorDoc)),
          Response(502, Malformed)}

\* The inputs of the runs that interleave calls.
ConcInvocations ==
    {AccountCall("user@example.com", "hunter2"), ControllersCall("tokA"),
     InfoCall("tokA", Href1), DirectorCall("tokA", "control4_X_Y")}

ConcResponses ==
    {Response(200, JsonText(TokenDoc(JStr("T")))),
     Response(200, JsonText(AccountDoc(<<D1, D2>>))),
     Response(502, Malformed)}

------------------------------------------------------------------------
\* The state of a call.

IdleCall ==
    [pc |-> "idle", inv |-> NoInvocation, session |-> 0, request |-> NoRequest,
     nsent |-> 0, elapsed |-> 0, cancelled |-> FALSE, response |-> NoResponse,
     exc |-> "", result |-> NoResult]

NoCall == [token |-> "", response |-> NoResponse, request |-> NoRequest,
           result |-> NoResult]

Init ==
    /\ calls = [c \in Calls |-> IdleCall]
    /\ openSessions = {}
    /\ nextSession = 1
    /\ module = ModuleInit
    /\ remembered = NoCall

------------------------------------------------------------------------
\* The steps of a call.

\* aiohttp.ClientSession(): a new object, distinct from every other session.
ClientSession(n) == n

\* async with aiohttp.ClientSession() as session: (entry)
Start(c, inv) ==
    /\ calls[c].pc = "idle"
    /\ nextSession <= MaxStarts
    /\ calls' = [calls EXCEPT ![c] =
                    [IdleCall EXCEPT !.pc = "opened", !.inv = inv,
                                     !.session = ClientSession(nextSession)]]
    /\ openSessions' = openSessions \cup {ClientSession(nextSession)}
    /\ nextSession' = nextSession + 1
    /\ UNCHANGED <<module, remembered>>

\* with async_timeout.timeout(10): async with session.post/get(...) as resp:
\* the timer is armed and the one request of the call goes out.
Sending(call, m) ==
    [call EXCEPT !.pc = "awaiting", !.request = RequestOf(m, call.inv),
                 !.nsent = call.nsent + 1, !.elapsed = 0]

Send(c) ==
    /\ calls[c].pc = "opened"
    /\ calls' = [calls EXCEPT ![c] = Sending(calls[c], module)]
    /\ UNCHANGED <<openSessions, nextSession, module, remembered>>

\* One unit of time passes for every call that waits for its response. A
\* timer that is due fires before more time passes.
Tick ==
    /\ \E c \in Calls : calls[c].pc = "awaiting"
    /\ \A c \in Calls : calls[c].pc = "awaiting" => calls[c].elapsed < Timeout
    /\ calls' = [c \in Calls |->
                    IF calls[c].pc = "awaiting"
                    THEN [calls[c] EXCEPT !.elapsed = calls[c].elapsed + 1]
                    ELSE calls[c]]
    /\ UNCHANGED <<openSessions, nextSession, module, remembered>>

\* return await resp.text(): the response arrived before the deadline.
Received(call, resp) ==
    [call EXCEPT !.pc = "received", !.response = resp, !.elapsed = 0]

Respond(c, resp) ==
    /\ calls[c].pc = "awaiting"
    /\ calls[c].elapsed < Timeout
    /\ calls' = [calls EXCEPT ![c] = Received(calls[c], resp)]
    /\ UNCHANGED <<openSessions, nextSession, module, remembered>>

\* session.post/get or resp.text() raises aiohttp.ClientError.
OnClientError(call) ==
    [call EXCEPT !.pc = "raising", !.exc = "ClientError", !.elapsed = 0]

ConnectionFail(c) ==
    /\ calls[c].pc = "awaiting"
    /\ calls[c].elapsed < Timeout
    /\ calls' = [calls EXCEPT ![c] = OnClientError(calls[c])]
    /\ UNCHANGED <<openSessions, nextSession, module, remembered>>

\* Variant of OnTimeout: the request is sent again when the timer fires.
OnTimeout_retry(call) == [call EXCEPT !.pc = "opened", !.elapsed = 0]

\* Variant of OnTimeout: no timer is armed, the call goes on waiting.
OnTimeout_none(call) == call

\* The timer of async_timeout.timeout(10) fires: the task is cancelled at
\* its await.
OnTimeout(call) ==
    [call EXCEPT !.pc = "raising", !.exc = "CancelledError",
                 !.cancelled = TRUE, !.elapsed = 0]

TimeoutFire(c) ==
    /\ calls[c].pc = "awaiting"
    /\ calls[c].elapsed = Timeout
    /\ calls' = [calls EXCEPT ![c] = OnTimeout(calls[c])]
    /\ UNCHANGED <<openSessions, nextSession, module, remembered>>

\* Exit of `with async_timeout.timeout(10)`: the cancellation its own timer
\* caused leaves the block as asyncio.TimeoutError.
TimeoutExit(call) ==
    IF call.cancelled /\ call.exc = "CancelledError" THEN "TimeoutError" ELSE call.exc

\* Variant of SessionExit: the session is never closed.
SessionExit_leak(open, session) == open

\* Exit of `async with aiohttp.ClientSession() as session`: the session is
\* closed, on the return path and on every exception path.
SessionExit(open, session) == open \ {session}

\* What the coroutine hands its caller: the exception that left the helper,
\* or what it computes from the helper's text.
Outcome(call) ==
    IF call.pc = "raising"
    THEN Raised(TimeoutExit(call))
    ELSE ResultOf(call.inv.op, call.response.text)

\* Variant of GlobalsAfterCall: getControllerInfo rebinds get_controllers_endpoint
\* to the href it was given.
GlobalsAfterCall_rebind(m, call) ==
    IF call.inv.op = "getControllerInfo"
    THEN [m EXCEPT !.get_controllers_endpoint = call.inv.href]
    ELSE m

\* No function of the module assigns a module-level name.
GlobalsAfterCall(m, call) == m

Exit(c) ==
    /\ calls[c].pc \in {"received", "raising"}
    /\ calls' = [calls EXCEPT ![c] =
                    [calls[c] EXCEPT !.pc = "done", !.result = Outcome(calls[c])]]
    /\ openSessions' = SessionExit(openSessions, calls[c].session)
    /\ module' = GlobalsAfterCall(module, calls[c])
    /\ UNCHANGED <<nextSession, remembered>>

\* What a caller can observe of a finished getAccountControllers call.
Observation(call) ==
    [token |-> call.inv.token, response |-> call.response,
     request |-> call.request, result |-> call.result]

\* The caller takes the result; it may keep it to compare with a later call.
Return(c) ==
    /\ calls[c].pc = "done"
    /\ calls' = [calls EXCEPT ![c] = IdleCall]
    /\ \/ UNCHANGED remembered
       \/ /\ calls[c].inv.op = "getAccountControllers"
          /\ remembered' = Observation(calls[c])
    /\ UNCHANGED <<openSessions, nextSession, module>>

------------------------------------------------------------------------
\* A caller that awaits each call before it makes the next one.

NoneInFlight == \A c \in Calls : calls[c].pc = "idle"

Next ==
    \/ \E inv \in Invocations : NoneInFlight /\ Start(1, inv)
    \/ \E c \in Calls : Send(c)
    \/ Tick
    \/ \E c \in Calls, resp \in Responses : Respond(c, resp)
    \/ \E c \in Calls : ConnectionFail(c)
    \/ \E c \in Calls : TimeoutFire(c)
    \/ \E c \in Calls : Exit(c)
    \/ \E c \in Calls : Return(c)

Spec == Init /\ [][Next]_vars

\* A caller that runs calls concurrently (asyncio.gather): a slot per call,
\* started in slot order.
ConcStart(c, inv) ==
    /\ \A d \in Calls : d < c => calls[d].pc # "idle"
    /\ Start(c, inv)

ConcNext ==
    \/ \E c \in Calls, inv \in ConcInvocations : ConcStart(c, inv)
    \/ \E c \in Calls : Send(c)
    \/ Tick
    \/ \E c \in Calls, resp \in ConcResponses : Respond(c, resp)
    \/ \E c \in Calls : ConnectionFail(c)
    \/ \E c \in Calls : TimeoutFire(c)
    \/ \E c \in Calls : Exit(c)

ConcSpec == Init /\ [][ConcNext]_vars

\* The event loop runs what is ready: time passes, a due timer fires, and a
\* coroutine whose await has completed runs to its end.
LiveInvocations == {ControllersCall("tokA"), DirectorCall("tokA", "control4_X_Y")}

LiveResponses ==
    {Response(200, JsonText(TokenDoc(JStr("T")))), Response(502, Malformed)}

LiveNext ==
    \/ \E c \in Calls, inv \in LiveInvocations : ConcStart(c, inv)
    \/ \E c \in Calls : Send(c)
    \/ Tick
    \/ \E c \in Calls, resp \in LiveResponses : Respond(c, resp)
    \/ \E c \in Calls : ConnectionFail(c)
    \/ \E c \in Calls : TimeoutFire(c)
    \/ \E c \in Calls : Exit(c)

LiveSpec ==
    /\ Init /\ [][LiveNext]_vars
    /\ WF_vars(Tick)
    /\ \A c \in Calls : WF_vars(TimeoutFire(c))
    /\ \A c \in Calls : WF_vars(Exit(c))

------------------------------------------------------------------------
\* Properties.

Done(c, op) == calls[c].pc = "done" /\ calls[c].inv.op = op
Sent(c) == calls[c].pc \in {"awaiting", "received", "raising", "done"}
GotResponse(c) == calls[c].pc = "done" /\ calls[c].exc = ""

\* The text encodes an object whose authToken is an object with a token field.
HasToken(text) ==
    /\ text.syntax = "json"
    /\ text.doc.kind = "object"
    /\ "authToken" \in DOMAIN text.doc.fields
    /\ text.doc.fields["authToken"].kind = "object"
    /\ "token" \in DOMAIN text.doc.fields["authToken"].fields

TokenOf(text) == text.doc.fields["authToken"].fields["token"]

\* The text encodes an object with an account field.
HasAccount(text) ==
    /\ text.syntax = "json"
    /\ text.doc.kind = "object"
    /\ "account" \in DOMAIN text.doc.fields

TokenOps == {"getAccountBearerToken", "getDirectorBearerToken"}

\* The field the operation extracts is not in the parsed body.
FieldAbsent(op, text) ==
    /\ text.syntax = "json"
    /\ \/ op \in TokenOps /\ ~HasToken(text)
       \/ op = "getAccountControllers" /\ ~HasAccount(text)

\* C1: when the body of the authentication response is a JSON object whose
\* authToken.token is the string T, getAccountBearerToken returns exactly T,
\* whatever the username and password.
C1_TokenVerbatim ==
    \A c \in Calls : \A s \in TokenStrings :
        (/\ Done(c, "getAccountBearerToken")
         /\ GotResponse(c)
         /\ HasToken(calls[c].response.text)
         /\ TokenOf(calls[c].response.text) = JStr(s))
        => calls[c].result = Returned(JStr(s))

C1_Witness ==
    \E c \in Calls :
        /\ Done(c, "getAccountBearerToken")
        /\ calls[c].inv.username = "other@example.com"
        /\ calls[c].response = Response(200, JsonText(TokenDoc(JStr(" t "))))
        /\ calls[c].result = Returned(JStr(" t "))

\* The three operations that extract a field.
FieldOps == {"getAccountBearerToken", "getDirectorBearerToken", "getAccountControllers"}

\* C2 (as amended): getAccountBearerToken, getDirectorBearerToken and
\* getAccountControllers each raise, and return no value, whenever the HTTP
\* layer errors (aiohttp.ClientError, asyncio.TimeoutError), the body is not
\* parseable (json.JSONDecodeError) or the expected field is absent (KeyError,
\* or TypeError when the value indexed is not a dict).
C2_FailuresRaise ==
    \A c \in Calls :
        (calls[c].pc = "done" /\ calls[c].inv.op \in FieldOps) =>
            /\ calls[c].exc # "" =>
                    /\ calls[c].result.outcome = "raise"
                    /\ calls[c].result.exc \in {"ClientError", "TimeoutError"}
                    /\ calls[c].result.value = NoValue
            /\ (GotResponse(c) /\ calls[c].response.text.syntax # "json") =>
                    calls[c].result = Raised("JSONDecodeError")
            /\ (GotResponse(c) /\ FieldAbsent(calls[c].inv.op, calls[c].response.text)) =>
                    /\ calls[c].result.outcome = "raise"
                    /\ calls[c].result.exc \in {"KeyError", "TypeError"}
                    /\ calls[c].result.value = NoValue

C2_Witness ==
    /\ \E c \in Calls :
        /\ Done(c, "getAccountControllers")
        /\ calls[c].response = Response(401, JsonText(ErrorDoc))
        /\ calls[c].result = Raised("KeyError")

\* C2 (as claimed): in each of these cases the three operations fail with
\* AuthenticationError.
C2_AuthenticationError ==
    \A c \in Calls :
        (/\ calls[c].pc = "done"
         /\ calls[c].inv.op \in FieldOps
         /\ \/ calls[c].exc # ""
            \/ GotResponse(c) /\ calls[c].response.text.syntax # "json"
            \/ GotResponse(c) /\ FieldAbsent(calls[c].inv.op, calls[c].response.text))
        => calls[c].result = Raised("AuthenticationError")

\* C5: getDirectorBearerToken(token, commonName) sends one POST to the
\* authentication endpoint, the endpoint getAccountBearerToken posts to, with
\* body {serviceInfo: {commonName, services: "director"}} and the header
\* Authorization: Bearer <token>; when the response is {authToken: {token: D}}
\* it returns D.
C5_DirectorRequest ==
    \A c \in Calls :
        /\ (Sent(c) /\ calls[c].inv.op = "getDirectorBearerToken") =>
            /\ calls[c].nsent = 1
            /\ calls[c].request.method = "POST"
            /\ calls[c].request.url = "https://apis.control4.com/authentication/v1/rest"
            /\ calls[c].request.authorization = "Bearer " \o calls[c].inv.token
            /\ calls[c].request.json =
                    [serviceInfo |-> [commonName |-> calls[c].inv.commonName,
                                      services |-> "director"]]
        /\ (Sent(c) /\ calls[c].inv.op = "getAccountBearerToken") =>
            calls[c].request.url = "https://apis.control4.com/authentication/v1/rest"
        /\ \A s \in TokenStrings :
            (/\ Done(c, "getDirectorBearerToken")
             /\ GotResponse(c)
             /\ calls[c].response.text = JsonText(TokenDoc(JStr(s))))
            => calls[c].result = Returned(JStr(s))

C5_Witness ==
    \E c \in Calls :
        /\ Done(c, "getDirectorBearerToken")
        /\ calls[c].inv.token = "tokB"
        /\ calls[c].inv.commonName = "control4_X_Y"
        /\ calls[c].request.authorization = "Bearer tokB"
        /\ calls[c].response = Response(200, JsonText(TokenDoc(JStr("T"))))
        /\ calls[c].result = Returned(JStr("T"))

\* C6: getAccountControllers returns the contents of the account field: the
\* same descriptors, in the order of the response, none dropped or added.
C6_AccountInOrder ==
    \A c \in Calls :
        (/\ Done(c, "getAccountControllers")
         /\ GotResponse(c)
         /\ HasAccount(calls[c].response.text)
         /\ calls[c].response.text.doc.fields["account"].kind = "array")
        => LET items == calls[c].response.text.doc.fields["account"].items
           IN  /\ calls[c].result.outcome = "return"
               /\ calls[c].result.value.kind = "array"
               /\ Len(calls[c].result.value.items) = Len(items)
               /\ \A i \in 1..Len(items) : calls[c].result.value.items[i] = items[i]

C6_Witness ==
    /\ \E c \in Calls :
        /\ Done(c, "getAccountControllers")
        /\ calls[c].response = Response(200, JsonText(AccountDoc(<<D2, D1>>)))
        /\ calls[c].result.value.items = <<D2, D1>>
    /\ remembered.response = Response(200, JsonText(AccountDoc(<<D1, D1>>)))
    /\ remembered.result = Returned(JArr(<<D1, D1>>))

C8_ControllersIdempotent ==
    /\ module = ModuleInit
    /\ \A c \in Calls :
        (/\ Done(c, "getAccountControllers")
         /\ GotResponse(c)
         /\ remembered # NoCall
         /\ remembered.response # NoResponse
         /\ calls[c].inv.token = remembered.token
         /\ calls[c].response = remembered.response)
        => /\ calls[c].request = remembered.request
           /\ calls[c].result = remembered.result

C8_Witness ==
    /\ nextSession = 4
    /\ remembered.token = "tokB"
    /\ remembered.response = Response(200, JsonText(AccountDoc(<<D1, D2>>)))
    /\ \E c \in Calls :
        /\ Done(c, "getAccountControllers")
        /\ calls[c].inv.token = "tokB"
        /\ calls[c].response = remembered.response
        /\ calls[c].result = Returned(JArr(<<D1, D2>>))

Active(c) == calls[c].pc \in {"opened", "awaiting", "received", "raising"}

\* C9: a call holds its own open session while it runs and the session is
\* closed once the call has returned or raised; no two calls have the same
\* session, and no session is open when every call has finished.
C9_SessionsReleased ==
    /\ \A c \in Calls :
        /\ Active(c) => calls[c].session \in openSessions
        /\ calls[c].pc = "done" => calls[c].session \notin openSessions
    /\ \A c, d \in Calls :
        (c # d /\ calls[c].pc # "idle" /\ calls[d].pc # "idle")
            => calls[c].session # calls[d].session
    /\ (\A c \in Calls : ~Active(c)) => openSessions = {}

C9_Witness ==
    \E c, d \in Calls :
        /\ c # d
        /\ calls[c].pc = "done"
        /\ calls[c].result = Raised("TimeoutError")
        /\ calls[d].pc = "awaiting"
        /\ openSessions = {calls[d].session}

\* C10: a call sends one request, and a failure (transport error, timeout,
\* malformed response) ends the call with the exception raised to its caller:
\* no second request follows.
C10_OneRequestNoRetry ==
    \A c \in Calls :
        /\ calls[c].nsent <= 1
        /\ Sent(c) => calls[c].nsent = 1
        /\ (calls[c].pc = "done" /\ calls[c].exc # "") =>
                /\ calls[c].nsent = 1
                /\ calls[c].result.outcome = "raise"
                /\ calls[c].result.exc \in {"ClientError", "TimeoutError"}
        /\ (GotResponse(c) /\ calls[c].response.text.syntax # "json") =>
                /\ calls[c].nsent = 1
                /\ calls[c].result = Raised("JSONDecodeError")
        /\ (GotResponse(c) /\ FieldAbsent(calls[c].inv.op, calls[c].response.text)) =>
                /\ calls[c].nsent = 1
                /\ calls[c].result.outcome = "raise"

C10_Witness ==
    \E c, d \in Calls :
        /\ calls[c].pc = "done" /\ calls[c].nsent = 1
        /\ calls[c].result = Raised("TimeoutError")
        /\ calls[d].pc = "done" /\ calls[d].nsent = 1
        /\ calls[d].result = Raised("JSONDecodeError")

\* C4: a call never waits past the deadline of 10 time units; a call whose
\* response has not arrived by then ends with asyncio.TimeoutError and no
\* value; and every call that waits for a response ends.
C4_TimeoutEndsCall ==
    /\ [](\A c \in Calls : calls[c].pc = "awaiting" => calls[c].elapsed <= 10)
    /\ [](\A c \in Calls :
            (calls[c].pc = "done" /\ calls[c].cancelled) =>
                /\ calls[c].result.outcome = "raise"
                /\ calls[c].result.exc = "TimeoutError"
                /\ calls[c].result.value = NoValue)
    /\ \A c \in Calls : (calls[c].pc = "awaiting") ~> (calls[c].pc = "done")

C4_Witness ==
    \E c \in Calls :
        /\ calls[c].pc = "done"
        /\ calls[c].cancelled
        /\ calls[c].response = NoResponse
        /\ calls[c].result = Raised("TimeoutError")

====
